---- MODULE Spec2Model ----
(***************************************************************************)
(* KronReader (src/modbus_reader.py): a Modbus RTU reader session that     *)
(* auto-detects a KRON CH30 meter on the host's serial ports, opens a      *)
(* persistent client on it and reads the measurements of a register map.   *)
(*                                                                         *)
(* The serial line, the pymodbus client and the device are the             *)
(* environment: every client.connect() and every register read picks its   *)
(* outcome nondeterministically.  connect() is modelled step by step (pc),  *)
(* because transports are opened and closed inside it; close(), read_all()  *)
(* and scan_registers() are single steps.                                   *)
(***************************************************************************)
EXTENDS Integers, Sequences, FiniteSets, TLC

VARIABLES
    ports,            \* list_ports.comports(): the host's ports, in enumeration order
    env,              \* os.environ: MODBUS_PORT, MODBUS_SLAVE_ID
    map,              \* self.map: settings.scan_slave_ids, channels, measurements
    client,           \* self.client: None or the persistent client (its port)
    current_slave_id, \* self.current_slave_id
    channel_name,     \* self.channel_name
    connection_info,  \* self.connection_info
    last_scan,        \* self.last_scan
    openCount,        \* the serial layer: number of open clients per port
    pc,               \* idle, a step of the running connect(), or done: a call just ended
    pi,               \* _auto_detect: index of the port being probed
    ci,               \* _auto_detect: index of the channel being probed
    detection,        \* connect(): the local DetectionResult
    connects,         \* number of connect() calls started so far
    probeLog,         \* history: the probes of the discovery just run, in order
    testRead,         \* history: the validating read of the running/last connect()
    wasConnected,     \* history: self.client was set when the running/last call began
    outs,             \* history: the read outcomes the last read_all()/scan saw
    ret,              \* history: the last call and what it returned or raised
    tick,             \* app.py: per server thread, where its polling callback stands
    decoded           \* the last _decode_registers call made on its own: inputs and result

vars == <<ports, env, map, client, current_slave_id, channel_name, connection_info,
          last_scan, openCount, pc, pi, ci, detection, connects, probeLog, testRead,
          wasConnected, outs, ret, tick, decoded>>

\* Bound on the number of connect() calls in one behaviour: a client that is
\* dropped without close() stays open for ever, so openCount grows with them.
MaxConnects == 2

-----------------------------------------------------------------------------
\* Values.  Python's None, numbers and strings are kept apart by a tag.

None == [kind |-> "None"]

Num(v) == [kind |-> "num", v |-> v]

Str(s) == [kind |-> "str", v |-> s]

\* One 16-bit register word from its two bytes, high byte first.
W(hi, lo) == hi * 256 + lo

\* Text is a sequence of latin-1 character codes.
CH30 == <<67, 72, 51, 48>>

Whitespace == {9, 10, 11, 12, 13, 28, 29, 30, 31, 32, 133, 160}

RECURSIVE LStrip(_, _)
LStrip(s, chars) ==
    IF s # <<>> /\ Head(s) \in chars THEN LStrip(Tail(s), chars) ELSE s

RECURSIVE RStrip(_, _)
RStrip(s, chars) ==
    IF s # <<>> /\ s[Len(s)] \in chars THEN RStrip(SubSeq(s, 1, Len(s) - 1), chars) ELSE s

\* str.strip(chars)
Strip(s, chars) == RStrip(LStrip(s, chars), chars)

\* str.upper() on latin-1 text (the two letters whose capital lies outside
\* latin-1, 181 and 255, do not occur in the modelled payloads)
UpperChar(c) ==
    IF c \in 97..122 \/ (c \in 224..254 /\ c # 247) THEN c - 32 ELSE c

Upper(s) == [i \in 1..Len(s) |-> UpperChar(s[i])]

\* str.startswith
StartsWith(s, prefix) ==
    Len(prefix) <= Len(s) /\ SubSeq(s, 1, Len(prefix)) = prefix

RECURSIVE Digits(_)
Digits(n) == IF n < 10 THEN <<48 + n>> ELSE Digits(n \div 10) \o <<48 + (n % 10)>>

\* str() of a float holding a non-negative whole number: "17224.0"
StrOfFloat(n) == Digits(n) \o <<46, 48>>

\* The bytes of a register list, each word high byte first.
RECURSIVE BytesOf(_)
BytesOf(registers) ==
    IF registers = <<>> THEN <<>>
    ELSE <<Head(registers) \div 256, Head(registers) % 256>> \o BytesOf(Tail(registers))

-----------------------------------------------------------------------------
\* _decode_registers, with pymodbus' BinaryPayloadDecoder as the code uses it.

Raised == [ok |-> FALSE, value |-> None]

Returned(v) == [ok |-> TRUE, value |-> v]

\* byteorder/wordorder.startswith("b") over the order names a map may give
StartsWithB(order) == order \in {"big", "badc"}

\* _decode_registers taking "little" for an order that is not given.
EndiansDefaultLittle(byteorder, wordorder) ==
    LET bo == IF byteorder = None THEN "little" ELSE byteorder.v
        wo == IF wordorder = None THEN "little" ELSE wordorder.v
        mapping == [dcba |-> <<FALSE, FALSE>>, cdab |-> <<TRUE, FALSE>>, badc |-> <<FALSE, TRUE>>]
    IN  IF wo \in {"dcba", "cdab", "badc"}
        THEN [word |-> mapping[wo][1], byte |-> mapping[wo][2]]
        ELSE [word |-> StartsWithB(wo), byte |-> StartsWithB(bo)]

\* The (byte, word) Endian pair _decode_registers hands to the decoder:
\* TRUE is Endian.Big, FALSE is Endian.Little.
Endians(byteorder, wordorder) ==
    LET bo == IF byteorder = None THEN "big" ELSE byteorder.v
        wo == IF wordorder = None THEN "big" ELSE wordorder.v
        mapping == [dcba |-> <<FALSE, FALSE>>, cdab |-> <<TRUE, FALSE>>, badc |-> <<FALSE, TRUE>>]
    IN  IF wo \in {"dcba", "cdab", "badc"}
        THEN [word |-> mapping[wo][1], byte |-> mapping[wo][2]]
        ELSE [word |-> StartsWithB(wo), byte |-> StartsWithB(bo)]

\* One word repacked with the decoder's byte order.
PackWord(w, byteBig) == IF byteBig THEN w ELSE W(w % 256, w \div 256)

\* _unpack_words turning the four bytes round by one place instead.
Words32Rotating(registers, e) ==
    IF e.word /\ e.byte
    THEN <<registers[1], registers[2]>>
    ELSE <<W(registers[2] % 256, registers[1] \div 256),
           W(registers[1] % 256, registers[2] \div 256)>>

\* The decoder's _unpack_words on four bytes: the first two words, reversed
\* under a little word order, each repacked under the byte order.
Words32(registers, e) ==
    LET first  == IF e.word THEN registers[1] ELSE registers[2]
        second == IF e.word THEN registers[2] ELSE registers[1]
    IN  <<PackWord(first, e.byte), PackWord(second, e.byte)>>

\* decode_32bit_uint: the repacked words read as one big-endian value.
Decode32(registers, e) ==
    LET w == Words32(registers, e) IN w[1] * 65536 + w[2]

Signed(v, bits) == IF v >= 2 ^ (bits - 1) THEN v - 2 ^ bits ELSE v

\* decode_32bit_int: the same four bytes as a two's complement value.
DecodeInt32(registers, e) ==
    LET w == Words32(registers, e) IN Signed(w[1], 16) * 65536 + w[2]

\* The number m * 2^x, m an integer: a whole number below 2^31 is the plain
\* number, every other one keeps its odd mantissa and its exponent.
RECURSIVE Dyadic(_, _)
Dyadic(m, x) ==
    IF m = 0 THEN Num(0)
    ELSE IF m % 2 = 0 THEN Dyadic(m \div 2, x + 1)
    ELSE IF x \in 0..7 THEN Num(m * 2 ^ x)
    ELSE [kind |-> "num", m |-> m, x |-> x]

\* decode_32bit_float: the same four bytes as an IEEE-754 binary32 value.
DecodeFloat32(registers, e) ==
    LET w        == Words32(registers, e)
        negative == w[1] >= 32768
        exponent == (w[1] \div 128) % 256
        fraction == (w[1] % 128) * 65536 + w[2]
        sign     == IF negative THEN -1 ELSE 1
    IN  IF exponent = 255
        THEN [kind |-> "num",
              special |-> IF fraction # 0 THEN "nan" ELSE IF negative THEN "-inf" ELSE "inf"]
        ELSE IF exponent = 0 THEN Dyadic(sign * fraction, -149)
        ELSE Dyadic(sign * (8388608 + fraction), exponent - 150)

\* The scale 0.1: a scale is None, a whole number Num(k), or n / d.
Tenth == [kind |-> "num", n |-> 1, d |-> 10]

RECURSIVE GCD(_, _)
GCD(a, b) == IF b = 0 THEN a ELSE GCD(b, a % b)

\* The number n / d, d > 0, in lowest terms.
Fraction(n, d) ==
    LET g == GCD(d, n % d)
    IN  IF d \div g = 1 THEN Num(n \div g)
        ELSE [kind |-> "num", n |-> n \div g, d |-> d \div g]

\* A scale that multiplies nothing.
Unscaled(v, scale) == Num(v)

\* value * float(scale), scale defaulting to 1.0; the product is exact.
Scaled(v, scale) ==
    IF scale = None THEN Num(v)
    ELSE IF "v" \in DOMAIN scale THEN Num(v * scale.v)
    ELSE Fraction(v * scale.n, scale.d)

\* The same for a decoded float: a whole number, m * 2^x, or inf and nan,
\* which every scale leaves as they are.
ScaledFloat(f, scale) ==
    IF scale = None \/ scale = Num(1) \/ "special" \in DOMAIN f THEN f
    ELSE IF "v" \in DOMAIN f THEN Scaled(f.v, scale)
    ELSE IF "v" \in DOMAIN scale THEN Dyadic(f.m * scale.v, f.x)
    ELSE [kind |-> "num", m |-> f.m * scale.n, x |-> f.x, d |-> scale.d]

DecodeRegisters(registers, dtype, scale, byteorder, wordorder) ==
    LET e == Endians(byteorder, wordorder)
    IN  CASE dtype \in {"float", "float32"} ->
                IF Len(registers) < 2 THEN Raised
                ELSE Returned(ScaledFloat(DecodeFloat32(registers, e), scale))
          [] dtype \in {"uint32", "u32"} ->
                IF Len(registers) < 2 THEN Raised
                ELSE Returned(Scaled(Decode32(registers, e), scale))
          [] dtype \in {"int32", "i32"} ->
                IF Len(registers) < 2 THEN Raised
                ELSE Returned(Scaled(DecodeInt32(registers, e), scale))
          [] dtype \in {"int16", "i16"} ->
                IF Len(registers) < 1 THEN Raised
                ELSE Returned(Scaled(Signed(PackWord(registers[1], e.byte), 16), scale))
          [] dtype = "string" ->
                Returned(Str(Strip(Strip(BytesOf(registers), Whitespace), {0})))
          [] OTHER ->
                \* uint16, u16 and every unknown type: registers[0]
                IF Len(registers) < 1 THEN Raised
                ELSE Returned(Scaled(registers[1], scale))

-----------------------------------------------------------------------------
\* Register maps (registers_kron03_real.json, or DEFAULT_REGISTER_MAP).

ChannelName(sid) == <<"CH30 canal", sid>>

Channel(sid) ==
    [name |-> ChannelName(sid), slave_id |-> sid,
     detection |-> [fn |-> 3, register |-> 0, count |-> 3, type |-> "string",
                    expected_prefix |-> Str(CH30)]]

Measurement(name, fn, register, count, type, unit, ai) ==
    [name |-> name, fn |-> fn, register |-> register, count |-> count, type |-> type,
     scale |-> None, byteorder |-> None, wordorder |-> None,
     unit |-> unit, description |-> name, ai |-> ai]

\* Two detection channels; the first flagged measurement is not the first one.
MapChannels ==
    [scan_slave_ids |-> <<1, 2>>,
     channels |-> <<Channel(1), Channel(2)>>,
     measurements |-> <<Measurement("tensao_l1", 4, 0, 1, "uint16", "V", FALSE),
                        Measurement("potencia_kw_inst", 4, 20, 2, "uint32", "kW", TRUE),
                        Measurement("frequencia", 3, 60, 1, "uint16", "Hz", TRUE)>>]

\* No channels: they are made from scan_slave_ids.  No measurement is flagged.
MapScanIds ==
    [scan_slave_ids |-> <<1, 2>>,
     channels |-> <<>>,
     measurements |-> <<Measurement("energia_kwh_a", 4, 40, 2, "uint32", "kWh", FALSE),
                        Measurement("fp_avg", 3, 70, 1, "int16", "pu", FALSE)>>]

\* No measurements and no scan_slave_ids.
MapNoMeasurements ==
    [scan_slave_ids |-> <<>>,
     channels |-> <<Channel(2)>>,
     measurements |-> <<>>]

\* Neither channels nor scan_slave_ids: discovery is left with address 1.
MapBare ==
    [scan_slave_ids |-> <<>>,
     channels |-> <<>>,
     measurements |-> <<Measurement("tensao_l1", 4, 0, 1, "uint16", "V", FALSE)>>]

RegisterMaps == {MapChannels, MapScanIds, MapNoMeasurements, MapBare}

\* Two maps a registers_kron03_real.json may hold: one name declared twice,
\* and a 32-bit measurement declared with one word.
MapDuplicateNames ==
    [scan_slave_ids |-> <<>>,
     channels |-> <<Channel(1)>>,
     measurements |-> <<Measurement("tensao_l1", 4, 0, 1, "uint16", "V", TRUE),
                        Measurement("tensao_l1", 4, 2, 1, "uint16", "V", FALSE)>>]

MapWrongCount ==
    [scan_slave_ids |-> <<>>,
     channels |-> <<Channel(1)>>,
     measurements |-> <<Measurement("potencia_kw_inst", 4, 20, 1, "uint32", "kW", TRUE)>>]

\* Every map __init__ loads: json.load's result is taken as it is.
LoadedMaps == RegisterMaps \cup {MapDuplicateNames, MapWrongCount}

measurements == map.measurements

channels == map.channels

\* _default_slave
DefaultSlave ==
    IF map.scan_slave_ids = <<>> THEN 1 ELSE map.scan_slave_ids[1]

\* _channels_to_scan
ChannelsToScan ==
    IF channels # <<>> THEN channels
    ELSE LET ids == IF map.scan_slave_ids = <<>> THEN <<1>> ELSE map.scan_slave_ids
         IN  [i \in 1..Len(ids) |->
                 [name |-> ChannelName(ids[i]), slave_id |-> ids[i],
                  detection |-> [fn |-> 3, register |-> 0, count |-> 1,
                                 type |-> "uint16", expected_prefix |-> None]]]

-----------------------------------------------------------------------------
\* The environment: what the serial layer and the device may answer.

\* A read returns no response, an error response, raises, or returns registers.
NoResponse == [kind |-> "none", registers |-> <<>>]

ErrorResponse == [kind |-> "error", registers |-> <<>>]

ReadRaises == [kind |-> "raise", registers |-> <<>>]

Registers(r) == [kind |-> "regs", registers |-> r]

\* Answers to a detection read: "CH30-X", "ch30-x", "KRON  ", "CH3   ",
\* six NUL bytes, and a response carrying no register.
DetectionRegisters ==
    { <<W(67, 72), W(51, 48), W(45, 88)>>,
      <<W(99, 104), W(51, 48), W(45, 120)>>,
      <<W(75, 82), W(79, 78), W(32, 32)>>,
      <<W(67, 72), W(51, 32), W(32, 32)>>,
      <<W(0, 0), W(0, 0), W(0, 0)>>,
      <<>> }

DetectionResponses ==
    {NoResponse, ErrorResponse, ReadRaises} \cup {Registers(r) : r \in DetectionRegisters}

\* Answers to a measurement read: one register (too few for a 32-bit type,
\* whose decoding then raises) or two.
MeasurementRegisters == { <<2200>>, <<1, 2>> }

MeasurementResponses ==
    {NoResponse, ErrorResponse, ReadRaises} \cup {Registers(r) : r \in MeasurementRegisters}

-----------------------------------------------------------------------------
\* The session's helpers.

PortNames == {"COM3", "COM5"}

\* The server threads that run the dashboard's callbacks.
Threads == {1, 2}

Disconnected ==
    [status |-> "desconectado", port |-> None, canal |-> None, identificador |-> None]

\* int() of the decimal text of an environment variable
RECURSIVE ParseInt(_)
ParseInt(s) ==
    IF s = <<>> THEN 0 ELSE ParseInt(SubSeq(s, 1, Len(s) - 1)) * 10 + (s[Len(s)] - 48)

\* The outcome of a call: still running, returned a value, or raised.
Running(op) == [op |-> op, outcome |-> "running", why |-> "", val |-> None]

Return(op, v) == [op |-> op, outcome |-> "return", why |-> "", val |-> v]

Raise(op, why) == [op |-> op, outcome |-> "raise", why |-> why, val |-> None]

\* The request _read_measurement sends for an entry.
Request(entry) ==
    [fn |-> IF entry.fn = 4 THEN 4 ELSE 3, address |-> entry.register,
     count |-> entry.count, slave |-> current_slave_id]

\* _read_measurement, given the response the client gives to its request.
ReadMeasurement(entry, resp) ==
    IF client = None THEN Raised
    ELSE IF resp.kind # "regs" THEN Raised
    ELSE DecodeRegisters(resp.registers, entry.type, entry.scale,
                         entry.byteorder, entry.wordorder)

\* _test_connection reading the first measurement whatever the flags.
TestEntryFirst == IF Len(measurements) > 0 THEN 1 ELSE 0

\* The entry _test_connection reads: the first flagged measurement, else the
\* first measurement; 0 when the map has none.
TestEntry ==
    LET flagged == {i \in 1..Len(measurements) : measurements[i].ai}
    IN  IF flagged # {} THEN CHOOSE i \in flagged : \A j \in flagged : i <= j
        ELSE IF Len(measurements) > 0 THEN 1 ELSE 0

\* dict[key] = value
Put(d, k, v) == [x \in (DOMAIN d) \cup {k} |-> IF x = k THEN v ELSE d[x]]

\* What one read contributes to a snapshot: the decoded value, or None when
\* the read or the decoding raised.
ValueOrNone(entry, resp) ==
    LET r == ReadMeasurement(entry, resp) IN IF r.ok THEN r.value ELSE None

\* The loop of read_all over entries i..N, snapshot being the dict so far.
RECURSIVE ReadAllFrom(_, _, _)
ReadAllFrom(i, resps, snapshot) ==
    IF i > Len(measurements) THEN snapshot
    ELSE LET entry == measurements[i]
         IN  IF entry.name = "" THEN ReadAllFrom(i + 1, resps, snapshot)
             ELSE ReadAllFrom(i + 1, resps,
                              Put(snapshot, entry.name, ValueOrNone(entry, resps[i])))

\* read_all without its try/except: the first failing read ends the loop.
RECURSIVE ReadAllUntilFailure(_, _, _)
ReadAllUntilFailure(i, resps, snapshot) ==
    IF i > Len(measurements) THEN snapshot
    ELSE LET entry == measurements[i]
             r     == ReadMeasurement(entry, resps[i])
         IN  IF ~r.ok THEN snapshot
             ELSE ReadAllUntilFailure(i + 1, resps, Put(snapshot, entry.name, r.value))

ReadAllSnapshotStopsEarly(resps) ==
    IF client = None THEN <<>> ELSE ReadAllUntilFailure(1, resps, <<>>)

\* read_all's return value, given the responses to its reads.
ReadAllSnapshot(resps) ==
    IF client = None THEN <<>> ELSE ReadAllFrom(1, resps, <<>>)

\* One row of scan_registers.
ScanRow(entry, resp) ==
    [name |-> entry.name, register |-> entry.register, fn |-> entry.fn,
     unit |-> entry.unit, description |-> entry.description, ai |-> entry.ai,
     value |-> ValueOrNone(entry, resp)]

\* scan_registers' rows, given the responses to its reads.
ScanRows(resps) ==
    IF client = None THEN <<>>
    ELSE [i \in 1..Len(measurements) |-> ScanRow(measurements[i], resps[i])]

\* The reads a cycle over the measurements performs: request and response.
Reads(resps) ==
    IF client = None THEN <<>>
    ELSE [i \in 1..Len(measurements) |->
             [request |-> Request(measurements[i]), response |-> resps[i]]]

\* The reads of a read_all cycle that sends a failed read a second time.
RECURSIVE RetryingFrom(_, _)
RetryingFrom(i, resps) ==
    IF i > Len(measurements) THEN <<>>
    ELSE LET read == [request |-> Request(measurements[i]), response |-> resps[i]]
         IN  (IF ReadMeasurement(measurements[i], resps[i]).ok THEN <<read>>
              ELSE <<read, read>>) \o RetryingFrom(i + 1, resps)

ReadAllReadsRetrying(resps) ==
    IF client = None THEN <<>> ELSE RetryingFrom(1, resps)

\* The reads a read_all cycle performs: those of the named measurements.
ReadAllReads(resps) ==
    LET named == SelectSeq([i \in 1..Len(measurements) |-> i],
                           LAMBDA i : measurements[i].name # "")
    IN  IF client = None THEN <<>>
        ELSE [k \in 1..Len(named) |-> Reads(resps)[named[k]]]

\* The detection read _probe_channel sends for a channel.
ProbeRequest(channel_cfg) ==
    [fn |-> IF channel_cfg.detection.fn = 4 THEN 4 ELSE 3,
     address |-> channel_cfg.detection.register,
     count |-> channel_cfg.detection.count,
     slave |-> channel_cfg.slave_id]

\* _probe_channel after its client opened: what the try block yields for the
\* response to the detection read.  kind is "raise" (an exception leaves the
\* function), "none" (return None) or "found" (a DetectionResult).
ProbeAccepts(expected, identifier) ==
    IF expected # None /\ expected.v # <<>> /\ identifier # <<>>
    THEN StartsWith(Upper(identifier), Upper(expected.v))
    ELSE TRUE

ProbeResult(port, channel_cfg, resp) ==
    LET det == channel_cfg.detection
        d   == DecodeRegisters(resp.registers, det.type, None, None, None)
        identifier == IF d.value.kind = "str" THEN Strip(d.value.v, Whitespace)
                      ELSE StrOfFloat(d.value.v)
    IN  IF resp.kind = "raise" THEN [kind |-> "raise", result |-> None]
        ELSE IF resp.kind # "regs" THEN [kind |-> "none", result |-> None]
        ELSE IF ~d.ok THEN [kind |-> "raise", result |-> None]
        ELSE IF ~ProbeAccepts(det.expected_prefix, identifier)
             THEN [kind |-> "none", result |-> None]
        ELSE [kind |-> "found",
              result |-> [port |-> port, slave_id |-> Num(channel_cfg.slave_id),
                          channel_name |-> Str(channel_cfg.name),
                          raw_identifier |-> Str(identifier)]]

\* One entry of the probe history: the candidate, how _probe_channel ended
\* ("none": it returned None, "raise", "found"), and the registers of the
\* answer that was accepted.
Probe(port, channel, kind, answer) ==
    [port |-> port, channel |-> channel, kind |-> kind, answer |-> answer]

-----------------------------------------------------------------------------
\* The state after KronReader.__init__, on some host and some register map.

\* Hosts: the serial ports found and the two environment variables.  A host
\* without ports is modelled with auto-detection only: a forced port never
\* looks at the port list.
Hosts ==
    { [ports |-> <<>>, MODBUS_PORT |-> None, MODBUS_SLAVE_ID |-> None],
      [ports |-> <<"COM3", "COM5">>, MODBUS_PORT |-> None, MODBUS_SLAVE_ID |-> None],
      [ports |-> <<"COM3", "COM5">>, MODBUS_PORT |-> Str("COM5"), MODBUS_SLAVE_ID |-> None],
      [ports |-> <<"COM3", "COM5">>, MODBUS_PORT |-> Str("COM5"),
       MODBUS_SLAVE_ID |-> Str(<<50>>)] }

\* The fields __init__ sets, no call running.
Idle ==
    /\ client = None
    /\ current_slave_id = None
    /\ channel_name = None
    /\ connection_info = Disconnected
    /\ last_scan = <<>>
    /\ openCount = [p \in PortNames |-> 0]
    /\ pc = "idle"
    /\ pi = 0
    /\ ci = 0
    /\ detection = None
    /\ connects = 0
    /\ probeLog = <<>>
    /\ testRead = None
    /\ wasConnected = FALSE
    /\ outs = <<>>
    /\ ret = Running("none")
    /\ tick = [t \in Threads |-> 0]

\* __init__ apart from the map: the host it runs on and the fields it sets.
Constructed ==
    /\ \E h \in Hosts :
          /\ ports = h.ports
          /\ env = [MODBUS_PORT |-> h.MODBUS_PORT, MODBUS_SLAVE_ID |-> h.MODBUS_SLAVE_ID]
    /\ Idle
    /\ decoded = None

Init ==
    /\ map \in RegisterMaps
    /\ Constructed

\* The same with any map the file may hold.
InitAnyMap ==
    /\ map \in LoadedMaps
    /\ Constructed

session == <<client, current_slave_id, channel_name, connection_info, last_scan>>

host == <<ports, env, map>>

\* What the calls on the session leave alone: the polling threads of the
\* dashboard and the decoder called on its own.
apart == <<tick, decoded>>

\* A call begins: no call is running.
Begin(op) ==
    /\ pc = "idle"
    /\ wasConnected' = (client # None)
    /\ UNCHANGED <<probeLog, testRead>>

-----------------------------------------------------------------------------
\* connect()

\* connect() on a forced port taking the map's default address whatever
\* MODBUS_SLAVE_ID says.
ConnectForcedDefaultSlave ==
    /\ Begin("connect")
    /\ connects < MaxConnects
    /\ env.MODBUS_PORT # None
    /\ detection' = [port |-> env.MODBUS_PORT.v, slave_id |-> Num(DefaultSlave),
                     channel_name |-> Str(<<"CH30 slave", DefaultSlave>>),
                     raw_identifier |-> None]
    /\ connects' = connects + 1
    /\ pc' = "open"
    /\ ret' = Running("connect")
    /\ outs' = <<>>
    /\ UNCHANGED <<host, apart, session, openCount, pi, ci>>

\* MODBUS_PORT is set: the DetectionResult is built from the environment.
ConnectForced ==
    /\ Begin("connect")
    /\ connects < MaxConnects
    /\ env.MODBUS_PORT # None
    /\ LET slave == IF env.MODBUS_SLAVE_ID # None THEN ParseInt(env.MODBUS_SLAVE_ID.v)
                    ELSE DefaultSlave
       IN  detection' = [port |-> env.MODBUS_PORT.v, slave_id |-> Num(slave),
                         channel_name |-> Str(<<"CH30 slave", slave>>),
                         raw_identifier |-> None]
    /\ connects' = connects + 1
    /\ pc' = "open"
    /\ ret' = Running("connect")
    /\ outs' = <<>>
    /\ UNCHANGED <<host, apart, session, openCount, pi, ci>>

\* _auto_detect finds no serial port and raises.
ConnectNoPorts ==
    /\ Begin("connect")
    /\ connects < MaxConnects
    /\ env.MODBUS_PORT = None
    /\ ports = <<>>
    /\ connects' = connects + 1
    /\ ret' = Raise("connect", "no_ports")
    /\ outs' = <<>>
    /\ pc' = "done"
    /\ UNCHANGED <<host, apart, session, openCount, pi, ci, detection>>

\* _auto_detect starts with the first port and the first channel.
ConnectAutoDetect ==
    /\ Begin("connect")
    /\ connects < MaxConnects
    /\ env.MODBUS_PORT = None
    /\ ports # <<>>
    /\ connects' = connects + 1
    /\ pc' = "probe"
    /\ pi' = 1
    /\ ci' = 1
    /\ detection' = None
    /\ ret' = Running("connect")
    /\ outs' = <<>>
    /\ UNCHANGED <<host, apart, session, openCount>>

\* _auto_detect with its loops exchanged: ports inside, channels outside.
NextCandidatePortsInside ==
    IF pi < Len(ports)
    THEN /\ pi' = pi + 1
         /\ pc' = "probe"
         /\ UNCHANGED <<ci, ret>>
    ELSE IF ci < Len(ChannelsToScan)
    THEN /\ ci' = ci + 1
         /\ pi' = 1
         /\ pc' = "probe"
         /\ UNCHANGED ret
    ELSE /\ pc' = "done"
         /\ ret' = Raise("connect", "not_detected")
         /\ pi' = 0
         /\ ci' = 0

\* The loops of _auto_detect after a probe returned None: the next channel,
\* else the next port, else None is returned and connect() raises.
NextCandidate ==
    IF ci < Len(ChannelsToScan)
    THEN /\ ci' = ci + 1
         /\ pc' = "probe"
         /\ UNCHANGED <<pi, ret>>
    ELSE IF pi < Len(ports)
    THEN /\ pi' = pi + 1
         /\ ci' = 1
         /\ pc' = "probe"
         /\ UNCHANGED ret
    ELSE /\ pc' = "done"
         /\ ret' = Raise("connect", "not_detected")
         /\ pi' = 0
         /\ ci' = 0

\* _probe_channel: the client of this probe does not open; return None.
ProbeOpenFails ==
    /\ pc = "probe"
    /\ probeLog' = Append(probeLog, Probe(ports[pi], ci, "none", <<>>))
    /\ NextCandidate
    /\ UNCHANGED <<host, apart, session, openCount, detection, connects, testRead,
                   wasConnected, outs>>

\* _probe_channel: the client of this probe opens.
ProbeOpens ==
    /\ pc = "probe"
    /\ openCount' = [openCount EXCEPT ![ports[pi]] = @ + 1]
    /\ pc' = "probing"
    /\ UNCHANGED <<host, apart, session, pi, ci, detection, connects, probeLog, testRead,
                   wasConnected, outs, ret>>

\* _probe_channel: the detection read raises or its answer cannot be decoded;
\* finally closes the client and the exception leaves connect().
ProbeRaises ==
    /\ pc = "probing"
    /\ \E resp \in DetectionResponses :
          ProbeResult(ports[pi], ChannelsToScan[ci], resp).kind = "raise"
    /\ openCount' = [openCount EXCEPT ![ports[pi]] = @ - 1]
    /\ probeLog' = Append(probeLog, Probe(ports[pi], ci, "raise", <<>>))
    /\ pc' = "done"
    /\ ret' = Raise("connect", "probe_exception")
    /\ pi' = 0
    /\ ci' = 0
    /\ UNCHANGED <<host, apart, session, detection, connects, testRead, wasConnected, outs>>

\* _probe_channel: no usable answer, or an identifier that does not match;
\* finally closes the client and None is returned.
ProbeRejects ==
    /\ pc = "probing"
    /\ \E resp \in DetectionResponses :
          ProbeResult(ports[pi], ChannelsToScan[ci], resp).kind = "none"
    /\ probeLog' = Append(probeLog, Probe(ports[pi], ci, "none", <<>>))
    /\ openCount' = [openCount EXCEPT ![ports[pi]] = @ - 1]
    /\ NextCandidate
    /\ UNCHANGED <<host, apart, session, detection, connects, testRead, wasConnected, outs>>

\* _probe_channel: the answer is accepted; finally closes the client and the
\* DetectionResult ends _auto_detect.
ProbeFinds ==
    /\ pc = "probing"
    /\ \E resp \in DetectionResponses :
          LET r == ProbeResult(ports[pi], ChannelsToScan[ci], resp)
          IN  /\ r.kind = "found"
              /\ detection' = r.result
              /\ probeLog' = Append(probeLog, Probe(ports[pi], ci, "found", resp.registers))
    /\ openCount' = [openCount EXCEPT ![ports[pi]] = @ - 1]
    /\ pc' = "open"
    /\ pi' = 0
    /\ ci' = 0
    /\ UNCHANGED <<host, apart, session, connects, testRead, wasConnected, outs, ret>>

\* connect(): the persistent client does not open; RuntimeError.
OpenFails ==
    /\ pc = "open"
    /\ pc' = "done"
    /\ ret' = Raise("connect", "open_failed")
    /\ detection' = None
    /\ probeLog' = <<>>
    /\ UNCHANGED <<host, apart, session, openCount, pi, ci, connects, testRead, wasConnected,
                   outs>>

\* connect(): the persistent client opens and replaces self.client.
Opens ==
    /\ pc = "open"
    /\ openCount' = [openCount EXCEPT ![detection.port] = @ + 1]
    /\ client' = [port |-> detection.port]
    /\ current_slave_id' = detection.slave_id
    /\ channel_name' = detection.channel_name
    /\ pc' = "test"
    /\ probeLog' = <<>>
    /\ UNCHANGED <<host, apart, connection_info, last_scan, pi, ci, detection, connects,
                   testRead, wasConnected, outs, ret>>

\* What _test_connection did: the entry it read (0: none), on which client, and
\* whether it returned True.
Tested(entry, ok) == [entry |-> entry, port |-> client.port, ok |-> ok]

\* connect(): _test_connection returns False; the client is closed and dropped.
TestFails ==
    /\ pc = "test"
    /\ TestEntry # 0
    /\ \E resp \in MeasurementResponses :
          ~ReadMeasurement(measurements[TestEntry], resp).ok
    /\ testRead' = Tested(TestEntry, FALSE)
    /\ openCount' = [openCount EXCEPT ![client.port] = @ - 1]
    /\ client' = None
    /\ pc' = "done"
    /\ ret' = Raise("connect", "test_failed")
    /\ detection' = None
    /\ UNCHANGED <<host, apart, current_slave_id, channel_name, connection_info, last_scan,
                   pi, ci, connects, probeLog, wasConnected, outs>>

\* connect(): _test_connection returns True; connection_info is filled in.
TestPasses ==
    /\ pc = "test"
    /\ \/ /\ TestEntry = 0
          /\ testRead' = Tested(0, TRUE)
       \/ /\ TestEntry # 0
          /\ \E resp \in MeasurementResponses :
                ReadMeasurement(measurements[TestEntry], resp).ok
          /\ testRead' = Tested(TestEntry, TRUE)
    /\ connection_info' = [status |-> "conectado", port |-> Str(detection.port),
                           canal |-> detection.channel_name,
                           identificador |-> detection.raw_identifier]
    /\ pc' = "scan"
    /\ UNCHANGED <<host, apart, client, current_slave_id, channel_name, last_scan, openCount,
                   pi, ci, detection, connects, probeLog, wasConnected, outs, ret>>

\* connect() returning True without its scan_registers().
ConnectSkipsScan ==
    /\ pc = "scan"
    /\ outs' = <<>>
    /\ pc' = "done"
    /\ ret' = Return("connect", Num(1))
    /\ detection' = None
    /\ UNCHANGED <<host, apart, session, openCount, pi, ci, connects, probeLog,
                   testRead, wasConnected>>

\* connect(): self.last_scan = self.scan_registers(); return True.
ConnectScans ==
    /\ pc = "scan"
    /\ \E resps \in [1..Len(measurements) -> MeasurementResponses] :
          /\ last_scan' = ScanRows(resps)
          /\ outs' = Reads(resps)
    /\ pc' = "done"
    /\ ret' = Return("connect", Num(1))
    /\ detection' = None
    /\ UNCHANGED <<host, apart, client, current_slave_id, channel_name, connection_info,
                   openCount, pi, ci, connects, probeLog, testRead, wasConnected>>

-----------------------------------------------------------------------------
\* The other public calls.

\* read_all giving up the client when every read of the cycle failed.
ReadAllClosesOnFailure ==
    /\ Begin("read_all")
    /\ \E resps \in [1..Len(measurements) -> MeasurementResponses] :
          /\ ret' = Return("read_all", ReadAllSnapshot(resps))
          /\ outs' = ReadAllReads(resps)
          /\ IF client # None /\ \A i \in 1..Len(measurements) : resps[i].kind # "regs"
             THEN /\ openCount' = [openCount EXCEPT ![client.port] = @ - 1]
                  /\ client' = None
                  /\ connection_info' = Disconnected
             ELSE UNCHANGED <<openCount, client, connection_info>>
    /\ pc' = "done"
    /\ UNCHANGED <<host, apart, current_slave_id, channel_name, last_scan, pi, ci,
                   detection, connects>>

ReadAll ==
    /\ Begin("read_all")
    /\ \E resps \in [1..Len(measurements) -> MeasurementResponses] :
          /\ ret' = Return("read_all", ReadAllSnapshot(resps))
          /\ outs' = ReadAllReads(resps)
    /\ pc' = "done"
    /\ UNCHANGED <<host, apart, session, openCount, pi, ci, detection, connects>>

ScanRegisters ==
    /\ Begin("scan_registers")
    /\ \E resps \in [1..Len(measurements) -> MeasurementResponses] :
          /\ ret' = Return("scan_registers", ScanRows(resps))
          /\ last_scan' = IF client = None THEN last_scan ELSE ScanRows(resps)
          /\ outs' = Reads(resps)
    /\ pc' = "done"
    /\ UNCHANGED <<host, apart, client, current_slave_id, channel_name, connection_info,
                   openCount, pi, ci, detection, connects>>

\* get_register_metadata's list: the descriptor of every measurement.
RegisterMetadata ==
    [i \in 1..Len(measurements) |->
        [name |-> measurements[i].name, register |-> measurements[i].register,
         fn |-> measurements[i].fn, unit |-> measurements[i].unit,
         description |-> measurements[i].description, ai |-> measurements[i].ai]]

GetRegisterMetadata ==
    /\ Begin("get_register_metadata")
    /\ ret' = Return("get_register_metadata", RegisterMetadata)
    /\ outs' = <<>>
    /\ pc' = "done"
    /\ UNCHANGED <<host, apart, session, openCount, pi, ci, detection, connects>>

\* relevant_field_names' list: the names of the flagged measurements, in
\* declared order, without the empty ones.
RelevantNames ==
    LET flagged == SelectSeq(measurements, LAMBDA m : m.ai /\ m.name # "")
    IN  [i \in 1..Len(flagged) |-> flagged[i].name]

RelevantFieldNames ==
    /\ Begin("relevant_field_names")
    /\ ret' = Return("relevant_field_names", RelevantNames)
    /\ outs' = <<>>
    /\ pc' = "done"
    /\ UNCHANGED <<host, apart, session, openCount, pi, ci, detection, connects>>

Close ==
    /\ Begin("close")
    /\ IF client # None
       THEN /\ openCount' = [openCount EXCEPT ![client.port] = @ - 1]
            /\ client' = None
            /\ connection_info' = Disconnected
       ELSE UNCHANGED <<openCount, client, connection_info>>
    /\ ret' = Return("close", None)
    /\ outs' = <<>>
    /\ pc' = "done"
    /\ UNCHANGED <<host, apart, current_slave_id, channel_name, last_scan, pi, ci,
                   detection, connects>>

\* The call has returned or raised and its caller goes on: the history of the
\* call is dropped.
CallerResumes ==
    /\ pc = "done"
    /\ pc' = "idle"
    /\ ret' = Running("none")
    /\ outs' = <<>>
    /\ probeLog' = <<>>
    /\ testRead' = None
    /\ wasConnected' = FALSE
    /\ UNCHANGED <<host, apart, session, openCount, pi, ci, detection, connects>>

Next ==
    \/ ConnectForced
    \/ ConnectNoPorts
    \/ ConnectAutoDetect
    \/ ProbeOpenFails
    \/ ProbeOpens
    \/ ProbeRaises
    \/ ProbeRejects
    \/ ProbeFinds
    \/ OpenFails
    \/ Opens
    \/ TestFails
    \/ TestPasses
    \/ ConnectScans
    \/ ReadAll
    \/ ScanRegisters
    \/ GetRegisterMetadata
    \/ RelevantFieldNames
    \/ Close
    \/ CallerResumes

Spec == Init /\ [][Next]_vars

\* The session on any loaded map.
SpecAnyMap == InitAnyMap /\ [][Next]_vars

\* One step of _auto_detect: a candidate's client is opened or fails to open,
\* or the detection read of the open one is answered, times out or raises.
ProbeStep ==
    \/ ProbeOpenFails
    \/ ProbeOpens
    \/ ProbeRaises
    \/ ProbeRejects
    \/ ProbeFinds

\* The session under connect() and close() calls alone.
NextDiscovery ==
    \/ ConnectForced
    \/ ConnectNoPorts
    \/ ConnectAutoDetect
    \/ ProbeStep
    \/ OpenFails
    \/ Opens
    \/ TestFails
    \/ TestPasses
    \/ ConnectScans
    \/ Close
    \/ CallerResumes

\* _auto_detect is synchronous and every client is built with a timeout
\* (timeout=0.3 in _probe_channel): an attempt to open and a detection read
\* each come to an end, so a discovery under way takes its next step.
SpecDiscovery == Init /\ [][NextDiscovery]_vars /\ WF_vars(ProbeStep)

-----------------------------------------------------------------------------
\* The dashboard (src/app.py): the module connects the reader once when it is
\* imported, then the threaded server runs the polling callback read_and_acc
\* for every tick request, each request on a thread of its own.  pc is
\* "serving" once the server runs with a reader, "noreader" when connect()
\* raised and reader is None.  tick[t] is 0 while thread t runs no read_all,
\* and i while its read_all has the read of the i-th measurement in flight.

\* reader.connect() at import.
AppConnects ==
    /\ connects = 0
    /\ (ConnectForced \/ ConnectNoPorts \/ ConnectAutoDetect)

\* connect() raised: reader = None, and no callback ever reads.
AppWithoutReader ==
    /\ pc = "done"
    /\ ret.outcome = "raise"
    /\ pc' = "noreader"
    /\ UNCHANGED <<host, session, openCount, pi, ci, detection, connects, probeLog,
                   testRead, wasConnected, outs, ret, apart>>

\* connect() returned: the module takes the metadata, the relevant names and
\* one scan_registers(), and the server starts.
AppServes ==
    /\ pc = "done"
    /\ ret.outcome = "return"
    /\ \E resps \in [1..Len(measurements) -> MeasurementResponses] :
          /\ last_scan' = ScanRows(resps)
          /\ outs' = Reads(resps)
    /\ ret' = Return("scan_registers", last_scan')
    /\ pc' = "serving"
    /\ UNCHANGED <<host, client, current_slave_id, channel_name, connection_info,
                   openCount, pi, ci, detection, connects, probeLog, testRead,
                   wasConnected, apart>>

\* A tick request arrives and its thread enters reader.read_all(): nothing in
\* read_and_acc or read_all looks at the other threads.  The first read is sent.
TickFires(t) ==
    /\ pc = "serving"
    /\ tick[t] = 0
    /\ client # None
    /\ Len(measurements) >= 1
    /\ tick' = [tick EXCEPT ![t] = 1]
    /\ UNCHANGED <<host, session, openCount, pc, pi, ci, detection, connects, probeLog,
                   testRead, wasConnected, outs, ret, decoded>>

\* The read in flight on thread t ends, in a value or in None, and the loop of
\* read_all sends the next one.
TickReads(t) ==
    /\ pc = "serving"
    /\ tick[t] \in 1..(Len(measurements) - 1)
    /\ tick' = [tick EXCEPT ![t] = @ + 1]
    /\ UNCHANGED <<host, session, openCount, pc, pi, ci, detection, connects, probeLog,
                   testRead, wasConnected, outs, ret, decoded>>

\* The last read on thread t ends and read_all returns to the callback.
TickReturns(t) ==
    /\ pc = "serving"
    /\ tick[t] = Len(measurements)
    /\ tick[t] # 0
    /\ tick' = [tick EXCEPT ![t] = 0]
    /\ UNCHANGED <<host, session, openCount, pc, pi, ci, detection, connects, probeLog,
                   testRead, wasConnected, outs, ret, decoded>>

NextPolling ==
    \/ AppConnects
    \/ ProbeOpenFails
    \/ ProbeOpens
    \/ ProbeRaises
    \/ ProbeRejects
    \/ ProbeFinds
    \/ OpenFails
    \/ Opens
    \/ TestFails
    \/ TestPasses
    \/ ConnectScans
    \/ AppWithoutReader
    \/ AppServes
    \/ \E t \in Threads : TickFires(t) \/ TickReads(t) \/ TickReturns(t)

SpecPolling == Init /\ [][NextPolling]_vars

-----------------------------------------------------------------------------
\* _decode_registers called on its own, over bounded inputs.

\* The bytes 0x00, 0x43, 0x5C and 0x80, and the register words made of them.
DecodeBytes == {0, 67, 92, 128}

DecodeWords == {W(hi, lo) : hi \in DecodeBytes, lo \in DecodeBytes}

\* No register, one word, two words; and the single word 2200.
DecodeRegisterLists ==
    {<<>>, <<2200>>} \cup {<<a>> : a \in DecodeWords}
                     \cup {<<a, b>> : a \in DecodeWords, b \in DecodeWords}

DecodeTypes == {"float32", "uint32", "int32", "uint16", "int16", "string"}

ByteOrders == {None, Str("big"), Str("little")}

WordOrders == {None, Str("big"), Str("little"), Str("dcba"), Str("cdab"), Str("badc")}

Scales == {None, Num(1), Tenth}

\* An unsigned 32-bit result from 2^31 on is beyond the model's integers.
Fits(registers, dtype, byteorder, wordorder) ==
    (dtype = "uint32" /\ Len(registers) >= 2)
        => Words32(registers, Endians(byteorder, wordorder))[1] < 32768

\* The call: _decode_registers runs on the inputs and returns or raises.
Decodes ==
    /\ decoded # None
    /\ decoded.result = None
    /\ decoded' = [decoded EXCEPT !.result =
                       DecodeRegisters(decoded.registers, decoded.dtype, decoded.scale,
                                       decoded.byteorder, decoded.wordorder)]
    /\ UNCHANGED <<host, session, openCount, pc, pi, ci, detection, connects, probeLog,
                   testRead, wasConnected, outs, ret, tick>>

\* A session on which _decode_registers is about to be called on some inputs.
InitDecode ==
    /\ map = MapNoMeasurements
    /\ ports = <<>>
    /\ env = [MODBUS_PORT |-> None, MODBUS_SLAVE_ID |-> None]
    /\ Idle
    /\ \E registers \in DecodeRegisterLists, dtype \in DecodeTypes, scale \in Scales,
          byteorder \in ByteOrders, wordorder \in WordOrders :
          /\ Fits(registers, dtype, byteorder, wordorder)
          /\ decoded = [registers |-> registers, dtype |-> dtype, scale |-> scale,
                        byteorder |-> byteorder, wordorder |-> wordorder,
                        result |-> None]

NextDecode == Decodes

SpecDecode == InitDecode /\ [][NextDecode]_vars

-----------------------------------------------------------------------------
\* Properties of the session.

N == Len(measurements)

Names == {measurements[i].name : i \in 1..N}

ConnectRaised == pc = "done" /\ ret.op = "connect" /\ ret.outcome = "raise"

ConnectReturned == pc = "done" /\ ret.op = "connect" /\ ret.outcome = "return"

\* C1: after a connect() whose validating read failed, whatever the session was
\* before that call, connection_info reads status desconectado.
C1_FailedTestReadsDisconnected ==
    (ConnectRaised /\ ret.why = "test_failed")
        => connection_info.status = "desconectado"

\* C2: read_all, in any session state, returns a snapshot with exactly one
\* entry per declared measurement, each a number or None, and all of them None
\* when no client is held.
C2_SnapshotComplete ==
    (pc = "done" /\ ret.op = "read_all")
        => /\ ret.outcome = "return"
           /\ DOMAIN ret.val = Names
           /\ Cardinality(DOMAIN ret.val) = N
           /\ \A n \in DOMAIN ret.val : ret.val[n] = None \/ ret.val[n].kind = "num"
           /\ ~wasConnected => \A n \in DOMAIN ret.val : ret.val[n] = None

\* A read that failed: no response, an error response, an exception of the
\* read, or registers whose decoding raises.
ReadFailed(entry, resp) ==
    \/ resp.kind \in {"none", "error", "raise"}
    \/ ~DecodeRegisters(resp.registers, entry.type, entry.scale,
                        entry.byteorder, entry.wordorder).ok

\* C3: in a connected session one read_all cycle reads every declared
\* measurement, records None for exactly those whose read failed (in any of the
\* four ways) and the decoded value for every other one.
C3_FailureIsolated ==
    (pc = "done" /\ ret.op = "read_all" /\ wasConnected)
        => /\ ret.outcome = "return"
           /\ Len(outs) = N
           /\ DOMAIN ret.val = Names
           /\ \A i \in 1..N :
                 LET entry == measurements[i]
                     resp  == outs[i].response
                 IN  IF ReadFailed(entry, resp)
                     THEN ret.val[entry.name] = None
                     ELSE ret.val[entry.name] =
                             DecodeRegisters(resp.registers, entry.type, entry.scale,
                                             entry.byteorder, entry.wordorder).value

\* A cycle in which the first measurement's read raised and a later one was
\* still read and decoded.
C3_Witness ==
    /\ pc = "done" /\ ret.op = "read_all" /\ wasConnected
    /\ N >= 2
    /\ outs[1].response.kind = "raise"
    /\ outs[2].response.kind = "regs"
    /\ ret.val[measurements[1].name] = None
    /\ ret.val[measurements[2].name] = Num(65538)

\* C4: after close() returns, from any session state, no client is held and
\* connection_info is disconnected with port, canal and identificador cleared.
C4_CloseResets ==
    (pc = "done" /\ ret.op = "close")
        => /\ ret.outcome = "return"
           /\ client = None
           /\ connection_info = Disconnected

\* C5: whenever connect() raises, the session is disconnected, holds no
\* client, and no client opened for it is left open.
C5_FailedConnectLeavesNothing ==
    ConnectRaised
        => /\ client = None
           /\ connection_info.status = "desconectado"
           /\ \A p \in PortNames : openCount[p] = 0

\* The entry a validating read has to use: the first flagged measurement, or
\* the first measurement when none is flagged.
IsValidatingEntry(i) ==
    /\ i \in 1..N
    /\ IF \E j \in 1..N : measurements[j].ai
       THEN measurements[i].ai /\ \A j \in 1..(i - 1) : ~measurements[j].ai
       ELSE i = 1

\* The running connect() has read the validating entry with success on the
\* client it opened.
ValidatedRead ==
    /\ testRead # None
    /\ testRead.ok
    /\ IsValidatingEntry(testRead.entry)
    /\ client # None
    /\ testRead.port = client.port

\* A step by which connect() reports the session connected: connection_info
\* is given status conectado, or connect() returns.
ReportsConnected ==
    \/ connection_info' # connection_info /\ connection_info'.status = "conectado"
    \/ ret' # ret /\ ret'.op = "connect" /\ ret'.outcome = "return"

C7_OneClientPerPort ==
    \A p \in PortNames : openCount[p] <= 1

\* The number of candidates of a discovery.
Candidates == Len(ports) * Len(ChannelsToScan)

\* C8: a failure while probing one candidate, of whatever kind, never ends
\* discovery: a discovery that ended without a result probed every candidate.
C8_ProbeFailureContinues ==
    (ConnectRaised /\ probeLog # <<>>)
        => /\ ret.why = "not_detected"
           /\ Len(probeLog) = Candidates
           /\ \A k \in 1..Len(probeLog) : probeLog[k].kind = "none"

\* The k-th candidate in probing order: ports outside, channels inside.
CandidatePort(k) == ports[((k - 1) \div Len(ChannelsToScan)) + 1]

CandidateChannel(k) == ((k - 1) % Len(ChannelsToScan)) + 1

\* C9: probes follow the fixed order; a probe is made only after every earlier
\* one returned None; the result is that of the first accepted candidate.  With
\* only COM5 at address 2 answering, with "CH30-X", the result is COM5, 2,
\* "CH30-X".
C9_FirstSuccessWins ==
    LET n == Len(probeLog)
    IN  /\ \A k \in 1..n :
              /\ probeLog[k].port = CandidatePort(k)
              /\ probeLog[k].channel = CandidateChannel(k)
        /\ \A k \in 1..(n - 1) : probeLog[k].kind = "none"
        /\ (pc = "open" /\ env.MODBUS_PORT = None)
              => /\ n >= 1
                 /\ probeLog[n].kind = "found"
                 /\ detection.port = probeLog[n].port
                 /\ detection.slave_id = Num(ChannelsToScan[probeLog[n].channel].slave_id)
                 /\ detection.channel_name = Str(ChannelsToScan[probeLog[n].channel].name)
        /\ (/\ pc = "open"
            /\ n = 4
            /\ channels # <<>>
            /\ probeLog[n].answer = <<W(67, 72), W(51, 48), W(45, 88)>>)
              => detection = [port |-> "COM5", slave_id |-> Num(2),
                              channel_name |-> Str(ChannelName(2)),
                              raw_identifier |-> Str(CH30 \o <<45, 88>>)]

\* Discovery returns COM5, address 2, "CH30-X" after the three candidates
\* before it gave nothing.
C9_Witness ==
    /\ pc = "open"
    /\ Len(probeLog) = 4
    /\ \A k \in 1..3 : probeLog[k].kind = "none"
    /\ probeLog[4] = [port |-> "COM5", channel |-> 2, kind |-> "found",
                      answer |-> <<W(67, 72), W(51, 48), W(45, 88)>>]
    /\ detection.port = "COM5"
    /\ detection.slave_id = Num(2)
    /\ detection.raw_identifier = Str(<<67, 72, 51, 48, 45, 88>>)

\* C10: with an expected prefix configured, a DetectionResult is returned only
\* for an identifier that starts with the prefix, case-insensitively.
C10_PrefixRequired ==
    (pc = "open" /\ probeLog # <<>>)
        => LET expected ==
                   ChannelsToScan[probeLog[Len(probeLog)].channel].detection.expected_prefix
           IN  expected # None
                   => StartsWith(Upper(detection.raw_identifier.v), Upper(expected.v))

\* A connect() that ended without any candidate passing detection: no serial
\* port, every probe returned None, or a probe was cut short by an exception.
NothingDetected ==
    ConnectRaised /\ ret.why \in {"no_ports", "not_detected", "probe_exception"}

\* C11: when no candidate passes detection, connect() raises its own explicit
\* error, and afterwards the session holds no client, no client is open on any
\* port and connection_info reads status desconectado.
C11_NoDeviceFound ==
    NothingDetected
        => /\ ret.why \in {"no_ports", "not_detected"}
           /\ client = None
           /\ \A p \in PortNames : openCount[p] = 0
           /\ connection_info.status = "desconectado"

\* The words a decode type takes: 2 for the 32-bit types, 1 for the 16-bit
\* ones; a string takes what is declared.
TypeWords(type, count) ==
    CASE type \in {"float", "float32", "int32", "i32", "uint32", "u32"} -> 2
      [] type \in {"int16", "i16", "uint16", "u16"} -> 1
      [] OTHER -> count

WellFormed(m) ==
    /\ \A i, j \in 1..Len(m.measurements) :
          m.measurements[i].name = m.measurements[j].name => i = j
    /\ \A i \in 1..Len(m.measurements) :
          m.measurements[i].count = TypeWords(m.measurements[i].type, m.measurements[i].count)

\* C12: a register map with a duplicate measurement name or with a word count
\* that does not match the decode type is rejected when the session is
\* constructed: no call is ever made on a session holding such a map.
C12_MalformedMapNeverUsed ==
    ~WellFormed(map) => (pc = "idle" /\ ret.op = "none" /\ connects = 0)

\* One word with its two bytes exchanged.
SwapBytes(w) == W(w % 256, w \div 256)

\* The registers A,B,C,D order of two words received in the layout a
\* convention names: DCBA has bytes and words exchanged, CDAB the words,
\* BADC the bytes of each word.
Reassembled(convention, registers) ==
    CASE convention = "dcba" -> <<SwapBytes(registers[2]), SwapBytes(registers[1])>>
      [] convention = "cdab" -> <<registers[2], registers[1]>>
      [] convention = "badc" -> <<SwapBytes(registers[1]), SwapBytes(registers[2])>>

\* A decode of two words as a 32-bit type under one of the three conventions.
DecodedUnderConvention ==
    /\ decoded # None
    /\ decoded.result # None
    /\ decoded.wordorder # None
    /\ decoded.wordorder.v \in {"dcba", "cdab", "badc"}
    /\ decoded.dtype \in {"float32", "uint32", "int32"}
    /\ Len(decoded.registers) = 2

\* C13: two words decoded under dcba, cdab or badc give the value whose bytes
\* A,B,C,D were sent in that layout: the result is that of decoding the
\* reassembled words A,B and C,D with no exchange at all.
C13_ConventionReassembles ==
    DecodedUnderConvention
        => decoded.result =
              DecodeRegisters(Reassembled(decoded.wordorder.v, decoded.registers),
                              decoded.dtype, decoded.scale, Str("big"), Str("big"))

\* A step that begins and ends one of the four reading calls.
ReadingCall ==
    /\ pc = "idle"
    /\ ret'.op \in {"read_all", "scan_registers", "get_register_metadata",
                    "relevant_field_names"}

\* C14: read_all, scan_registers, get_register_metadata and
\* relevant_field_names leave connection_info, the held client and every open
\* client as they are, whatever the reads answer and whatever cycles came
\* before; they start no connect, and the two accessors read no register.
C14_ReadsLeaveConnectionAlone ==
    [][ReadingCall
          => /\ connection_info' = connection_info
             /\ client' = client
             /\ openCount' = openCount
             /\ connects' = connects
             /\ ret'.op \in {"get_register_metadata", "relevant_field_names"}
                   => outs' = <<>>]_vars

\* A cycle of a connected session in which every read failed has ended, and
\* the session is still connected on its client.
C14_Witness ==
    /\ pc = "done" /\ ret.op = "read_all" /\ wasConnected
    /\ N >= 2
    /\ \A i \in 1..N : outs[i].response.kind # "regs" /\ ret.val[measurements[i].name] = None
    /\ client # None
    /\ openCount[client.port] >= 1
    /\ connection_info.status = "conectado"

\* The threads whose read_all has a read in flight on the session's client.
InFlight == {t \in Threads : tick[t] # 0}

\* C15: at most one register read is in flight on the session's client: no
\* polling tick is inside read_all while another tick's read_all is.
C15_OneReadInFlight ==
    Cardinality(InFlight) <= 1

\* Both overrides are set in the environment.
BothForced == env.MODBUS_PORT # None /\ env.MODBUS_SLAVE_ID # None

ForcedPort == env.MODBUS_PORT.v

ForcedAddress == Num(ParseInt(env.MODBUS_SLAVE_ID.v))

\* C16: with the forced port and the forced address both set, connect() makes
\* no detection probe and opens no client on any other port; the persistent
\* client is on the forced port, and the validating read and every later read
\* are sent to the forced address.
C16_ForcedBypassesDiscovery ==
    BothForced
        => /\ pc \notin {"probe", "probing"}
           /\ probeLog = <<>>
           /\ \A p \in PortNames \ {ForcedPort} : openCount[p] = 0
           /\ detection # None
                 => detection.port = ForcedPort /\ detection.slave_id = ForcedAddress
           /\ client # None => client.port = ForcedPort
           /\ (pc = "test" /\ TestEntry # 0)
                 => Request(measurements[TestEntry]).slave = ForcedAddress
           /\ testRead # None => testRead.port = ForcedPort
           /\ \A i \in 1..Len(outs) : outs[i].request.slave = ForcedAddress

\* With MODBUS_PORT=COM5 and MODBUS_SLAVE_ID=2 a read_all cycle has run on
\* the connected session: its reads went to address 2 on COM5.
C16_Witness ==
    /\ BothForced
    /\ pc = "done" /\ ret.op = "read_all" /\ wasConnected
    /\ N >= 2
    /\ client = [port |-> "COM5"]
    /\ openCount = [p \in PortNames |-> IF p = "COM5" THEN 1 ELSE 0]
    /\ \A i \in 1..N : outs[i].request.slave = Num(2)

\* Row i of a scan carries the descriptor of the i-th declared measurement.
DescribesMeasurement(row, i) ==
    /\ row.name = measurements[i].name
    /\ row.register = measurements[i].register
    /\ row.fn = measurements[i].fn
    /\ row.unit = measurements[i].unit
    /\ row.description = measurements[i].description
    /\ row.ai = measurements[i].ai

\* C17: scan_registers, in any session state, returns exactly one row per
\* declared measurement, the i-th row carrying the descriptor of the i-th
\* measurement and its decoded value or None.
C17_ScanRowPerMeasurement ==
    (pc = "done" /\ ret.op = "scan_registers")
        => /\ ret.outcome = "return"
           /\ Len(ret.val) = N
           /\ \A i \in 1..N :
                 /\ DescribesMeasurement(ret.val[i], i)
                 /\ ret.val[i].value = None \/ ret.val[i].value.kind = "num"

\* The step by which connect() returns.
ConnectReturns == pc = "scan" /\ pc' = "done"

\* The session as a successful connect() on DetectionResult d has to leave it.
ConnectedOn(d) ==
    /\ ret' = Return("connect", Num(1))
    /\ connection_info' = [status |-> "conectado", port |-> Str(d.port),
                           canal |-> d.channel_name, identificador |-> d.raw_identifier]
    /\ client' = [port |-> d.port]
    /\ openCount'[d.port] >= 1
    /\ current_slave_id' = d.slave_id
    /\ Len(last_scan') = N
    /\ \A i \in 1..N : DescribesMeasurement(last_scan'[i], i)
    /\ Len(outs') = N
    /\ \A i \in 1..N : outs'[i].request.slave = d.slave_id

\* Between calls a session that holds a client is the one its last successful
\* connect() left: status conectado on the client's port and channel, whose
\* address (the channel names of the model carry it) is current_slave_id.
StaysAsConnected ==
    (pc \in {"idle", "done"} /\ client # None)
        => /\ connection_info.status = "conectado"
           /\ connection_info.port = Str(client.port)
           /\ connection_info.canal = channel_name
           /\ connection_info.canal.v[2] = current_slave_id.v
           /\ (ret.op \in {"read_all", "scan_registers"} /\ wasConnected)
                 => \A i \in 1..Len(outs) : outs[i].request.slave = current_slave_id

\* C18: when connect() returns, connection_info is conectado with the port,
\* channel name and identifier of the DetectionResult it used, the client is
\* on that port, a full scan has run and last_scan has one row per declared
\* measurement; from then on every read goes to that result's address.
C18_ConnectFillsSession ==
    /\ [][ConnectReturns => ConnectedOn(detection)]_vars
    /\ []StaysAsConnected

\* connect() has returned after discovery found "CH30-X" at address 2 on
\* COM5, with a scan of the three measurements in last_scan.
C18_Witness ==
    /\ ConnectReturned
    /\ env.MODBUS_PORT = None
    /\ connection_info = [status |-> "conectado", port |-> Str("COM5"),
                          canal |-> Str(ChannelName(2)),
                          identificador |-> Str(CH30 \o <<45, 88>>)]
    /\ current_slave_id = Num(2)
    /\ Len(last_scan) = 3
    /\ last_scan[2].name = "potencia_kw_inst"
    /\ \A i \in 1..3 : outs[i].request.slave = Num(2)

\* C19: a read_all cycle on a connected session sends exactly one request per
\* declared measurement, in declared order, with that measurement's function
\* code, register and word count, to the connected address; a failed request
\* is not sent again, and what earlier cycles saw changes nothing.
C19_OneRequestPerMeasurement ==
    (pc = "done" /\ ret.op = "read_all" /\ wasConnected)
        => /\ Len(outs) = N
           /\ \A i \in 1..N :
                 outs[i].request = [fn |-> measurements[i].fn,
                                    address |-> measurements[i].register,
                                    count |-> measurements[i].count,
                                    slave |-> current_slave_id]

\* A cycle on the three-measurement map at address 1 whose first read got no
\* response: three requests were sent, the failed one once.
C19_Witness ==
    /\ pc = "done" /\ ret.op = "read_all" /\ wasConnected
    /\ Len(outs) = 3
    /\ outs[1] = [request |-> [fn |-> 4, address |-> 0, count |-> 1, slave |-> Num(1)],
                  response |-> NoResponse]
    /\ outs[2].request = [fn |-> 4, address |-> 20, count |-> 2, slave |-> Num(1)]
    /\ outs[3].request = [fn |-> 3, address |-> 60, count |-> 1, slave |-> Num(1)]

\* The candidate addresses a map without channels is scanned on.
CandidateIds == IF map.scan_slave_ids = <<>> THEN <<1>> ELSE map.scan_slave_ids

\* The generic detection read: function code 3, register 0, one word.
GenericRead(sid) == [fn |-> 3, address |-> 0, count |-> 1, slave |-> sid]

\* C20: with no channels declared, discovery probes on every port one channel
\* per candidate address, in configured order (address 1 alone when none is
\* configured), each with the generic read; registers answered to that read
\* make the probed port and address the result, and discovery gives up only
\* after every port and address was probed and none answered.
C20_SynthesizedChannels ==
    channels = <<>>
        => /\ Len(ChannelsToScan) = Len(CandidateIds)
           /\ \A k \in 1..Len(probeLog) :
                 /\ probeLog[k].port = ports[((k - 1) \div Len(CandidateIds)) + 1]
                 /\ probeLog[k].channel = ((k - 1) % Len(CandidateIds)) + 1
           /\ pc \in {"probe", "probing"}
                 => /\ pi = (Len(probeLog) \div Len(CandidateIds)) + 1
                    /\ ci = (Len(probeLog) % Len(CandidateIds)) + 1
                    /\ ProbeRequest(ChannelsToScan[ci]) = GenericRead(CandidateIds[ci])
                    /\ \A r \in DetectionRegisters :
                          LET found == ProbeResult(ports[pi], ChannelsToScan[ci], Registers(r))
                          IN  r # <<>>
                                => /\ found.kind = "found"
                                   /\ found.result.port = ports[pi]
                                   /\ found.result.slave_id = Num(CandidateIds[ci])
           /\ (ConnectRaised /\ probeLog # <<>>)
                 => /\ Len(probeLog) = Len(ports) * Len(CandidateIds)
                    /\ \A k \in 1..Len(probeLog) : probeLog[k].kind = "none"
           /\ (pc = "open" /\ probeLog # <<>>)
                 => LET last == probeLog[Len(probeLog)]
                    IN  /\ last.kind = "found"
                        /\ detection.port = last.port
                        /\ detection.slave_id = Num(CandidateIds[last.channel])
                        /\ detection.channel_name =
                               Str(ChannelName(CandidateIds[last.channel]))

\* A decode that returned a value.
DecodeReturned == decoded # None /\ decoded.result # None /\ decoded.result.ok

\* What the same registers decode to when no scale is given.
RawValue ==
    DecodeRegisters(decoded.registers, decoded.dtype, None, decoded.byteorder,
                    decoded.wordorder).value

\* Ten times a number: the whole number, the fraction n / d with d dividing
\* 10, or the tenth of m * 2^x.
TenTimes(value) ==
    IF "v" \in DOMAIN value THEN Num(10 * value.v)
    ELSE IF "n" \in DOMAIN value THEN Num(value.n * (10 \div value.d))
    ELSE Dyadic(value.m, value.x)

\* C21: every numeric result is the raw decoded value times the scale, a
\* missing scale counting as 1, and a string is returned as it is; the word
\* 2200 with scale 0.1 gives 220.
C21_ScaleApplied ==
    /\ DecodeRegisters(<<2200>>, "uint16", Tenth, None, None) = Returned(Num(220))
    /\ DecodeReturned
          => CASE decoded.dtype = "string" ->
                      decoded.result.value.kind = "str" /\ decoded.result.value = RawValue
               [] decoded.scale \in {None, Num(1)} ->
                      decoded.result.value.kind = "num" /\ decoded.result.value = RawValue
               [] OTHER ->
                      /\ decoded.result.value.kind = "num"
                      /\ "special" \in DOMAIN RawValue => decoded.result.value = RawValue
                      /\ "special" \notin DOMAIN RawValue
                            => /\ decoded.scale = Tenth
                               /\ TenTimes(decoded.result.value) = RawValue

\* The word 2200 was decoded as uint16 with scale 0.1 and gave 220.
C21_Witness ==
    /\ DecodeReturned
    /\ decoded.registers = <<2200>>
    /\ decoded.dtype = "uint16"
    /\ decoded.scale = Tenth
    /\ decoded.result.value = Num(220)

\* Byte order and word order are both big, given or by default.
PlainOrders ==
    /\ decoded.byteorder \in {None, Str("big")}
    /\ decoded.wordorder \in {None, Str("big")}

\* No exchange of bytes nor of words.
NoSwap == [word |-> TRUE, byte |-> TRUE]

\* 220.5 = 441 / 2
TwoHundredTwentyAndAHalf == [kind |-> "num", m |-> 441, x |-> -1]

\* C22: with byte order big and word order big, given or by default, two words
\* are assembled as r0.high, r0.low, r1.high, r1.low and read as one 32-bit
\* value; 0x435C, 0x8000 with scale 1.0 decode to 220.5.
C22_BigBigAssembles ==
    /\ \A bo \in {None, Str("big")}, wo \in {None, Str("big")} :
          DecodeRegisters(<<17244, 32768>>, "float32", Num(1), bo, wo)
             = Returned(TwoHundredTwentyAndAHalf)
    /\ (/\ DecodeReturned
        /\ PlainOrders
        /\ Len(decoded.registers) = 2
        /\ decoded.dtype \in {"float32", "uint32", "int32"})
          => LET r0 == decoded.registers[1]
                 r1 == decoded.registers[2]
                 w  == Words32(decoded.registers,
                               Endians(decoded.byteorder, decoded.wordorder))
             IN  /\ BytesOf(w) = <<r0 \div 256, r0 % 256, r1 \div 256, r1 % 256>>
                 /\ decoded.result.value =
                       CASE decoded.dtype = "uint32" ->
                                Scaled(r0 * 65536 + r1, decoded.scale)
                         [] decoded.dtype = "int32" ->
                                Scaled((IF r0 >= 32768 THEN r0 - 65536 ELSE r0) * 65536 + r1,
                                       decoded.scale)
                         [] decoded.dtype = "float32" ->
                                ScaledFloat(DecodeFloat32(decoded.registers, NoSwap),
                                            decoded.scale)

\* 0x435C, 0x8000 were decoded as float32 with scale 1.0 and no order given,
\* and gave 220.5.
C22_Witness ==
    /\ DecodeReturned
    /\ decoded.registers = <<17244, 32768>>
    /\ decoded.dtype = "float32"
    /\ decoded.scale = Num(1)
    /\ decoded.byteorder = None
    /\ decoded.wordorder = None
    /\ decoded.result.value = TwoHundredTwentyAndAHalf

AsInt16 ==
    DecodeRegisters(decoded.registers, "int16", None, decoded.byteorder,
                    decoded.wordorder).value.v

\* C26: under every byte order a word decoded as uint16 and as int16 is read
\* in the same byte arrangement: the two results are congruent modulo 65536.
C26_Uint16LikeInt16 ==
    (/\ DecodeReturned
     /\ decoded.dtype = "uint16"
     /\ decoded.scale \in {None, Num(1)})
        => (decoded.result.value.v + 65536) % 65536 = (AsInt16 + 65536) % 65536

\* _auto_detect is running.
Discovering == pc \in {"probe", "probing"}

\* The probes made so far by the discovery under way or just ended: no more
\* than there are candidates, and no (port, channel) pair twice.
ProbesBounded ==
    /\ Len(probeLog) <= Candidates
    /\ \A j, k \in 1..Len(probeLog) :
          (probeLog[j].port = probeLog[k].port /\ probeLog[j].channel = probeLog[k].channel)
              => j = k

\* A discovery that ended did so with a DetectionResult, found by its last
\* probe, or with the report that no device was found, after every candidate
\* returned None.
EndsFoundOrNotFound ==
    /\ (pc = "open" /\ probeLog # <<>>)
          => /\ detection # None
             /\ probeLog[Len(probeLog)].kind = "found"
    /\ (ConnectRaised /\ probeLog # <<>>)
          => /\ ret.why = "not_detected"
             /\ \A k \in 1..Len(probeLog) : probeLog[k].kind = "none"

\* C27: discovery always terminates: it probes each (port, channel) pair at
\* most once, makes at most ports x channels probes, and ends either with a
\* DetectionResult or with the report that no device was found.
C27_DiscoveryTerminates ==
    /\ [](ProbesBounded /\ EndsFoundOrNotFound)
    /\ (Discovering ~> ~Discovering)

====
